---- MODULE Spec2Model ----
(***************************************************************************)
(* Player component of biy-game (src/components/player.py).                *)
(*                                                                         *)
(* The player's position and speed are Python floats (IEEE-754 binary64).  *)
(* The decay step 0.05 is not a binary fraction, so whether a speed        *)
(* reaches "exactly 0" on a given tick depends on the rounding of every    *)
(* addition.  Floats are therefore modelled bit-exactly: a float is a      *)
(* record [s, m, e] of value (-1)^s * M * 2^e whose significand M is a     *)
(* natural number of exactly 53 bits (or 0), kept as m = <<lo, hi>> with   *)
(* M = lo + hi * 2^30 because TLC integers are 32 bits wide.               *)
(* Python's -0.0 compares equal to 0 and behaves as 0 in every operation   *)
(* used by the player, so one zero is kept.                                *)
(***************************************************************************)
EXTENDS Integers, Sequences, FiniteSets, TLC

(* ---------------------------------------------------------------------- *)
(* Wide naturals: four little-endian limbs of 30 bits (120 bits).          *)
(* ---------------------------------------------------------------------- *)
\* the one element of a singleton; {F(x) : x \in {e}} names the value of e
\* once, however often F uses x
The(S) == CHOOSE x \in S : TRUE

Pow2Tab ==
    <<1, 2, 4, 8, 16, 32, 64, 128, 256, 512, 1024, 2048, 4096, 8192, 16384,
      32768, 65536, 131072, 262144, 524288, 1048576, 2097152, 4194304,
      8388608, 16777216, 33554432, 67108864, 134217728, 268435456,
      536870912, 1073741824>>

\* 2^k for 0 <= k <= 30
Pow2(k) == Pow2Tab[k + 1]

Limb == Pow2(30)

RECURSIVE BitLen(_)
\* number of bits of n, 0 <= n < 2^31
BitLen(n) ==
    IF n >= 65536 THEN 16 + BitLen(n \div 65536)
    ELSE IF n >= 256 THEN 8 + BitLen(n \div 256)
    ELSE IF n >= 16 THEN 4 + BitLen(n \div 16)
    ELSE IF n >= 4 THEN 2 + BitLen(n \div 4)
    ELSE IF n >= 2 THEN 2
    ELSE n

WGet(w, i) == IF i >= 1 /\ i <= 4 THEN w[i] ELSE 0

WIsZero(w) == w[1] = 0 /\ w[2] = 0 /\ w[3] = 0 /\ w[4] = 0

\* w * 2^d, the bits above 2^120 dropped
WShlBy(w, n, r) ==
    [i \in 1..4 |->
       (WGet(w, i - n) % Pow2(30 - r)) * Pow2(r)
       + (WGet(w, i - n - 1) \div Pow2(30 - r))]

WShl(w, d) ==
    The({IF k = 0 THEN x ELSE WShlBy(x, k \div 30, k % 30) : x \in {w}, k \in {d}})

\* floor(w / 2^d)
WShrBy(w, n, r) ==
    [i \in 1..4 |->
       (WGet(w, i + n) \div Pow2(r))
       + (WGet(w, i + n + 1) % Pow2(r)) * Pow2(30 - r)]

WShr(w, d) ==
    The({IF k = 0 THEN x ELSE WShrBy(x, k \div 30, k % 30) : x \in {w}, k \in {d}})

WAdd4(t1, t2, t3, a4, b4) ==
    <<t1 % Limb, t2 % Limb, t3 % Limb, (a4 + b4 + (t3 \div Limb)) % Limb>>

WAdd3(t1, t2, a, b) == WAdd4(t1, t2, a[3] + b[3] + (t2 \div Limb), a[4], b[4])

WAdd2(t1, a, b) == WAdd3(t1, a[2] + b[2] + (t1 \div Limb), a, b)

WAdd(a, b) == The({WAdd2(x[1] + y[1], x, y) : x \in {a}, y \in {b}})

Borrow(t) == IF t < 0 THEN 1 ELSE 0

WSub4(t1, t2, t3, a4, b4) ==
    <<t1 % Limb, t2 % Limb, t3 % Limb, (a4 - b4 - Borrow(t3)) % Limb>>

WSub3(t1, t2, a, b) == WSub4(t1, t2, a[3] - b[3] - Borrow(t2), a[4], b[4])

WSub2(t1, a, b) == WSub3(t1, a[2] - b[2] - Borrow(t1), a, b)

\* a - b for a >= b
WSub(a, b) == The({WSub2(x[1] - y[1], x, y) : x \in {a}, y \in {b}})

WBitLen(w) ==
    IF w[4] # 0 THEN 90 + BitLen(w[4])
    ELSE IF w[3] # 0 THEN 60 + BitLen(w[3])
    ELSE IF w[2] # 0 THEN 30 + BitLen(w[2])
    ELSE BitLen(w[1])

\* the product of two significands: schoolbook on limbs of 15 bits
Half == Pow2(15)

Split(m) == <<m[1] % Half, m[1] \div Half, m[2] % Half, m[2] \div Half>>

\* column k (1..7) of the product of the 15-bit limbs x and y, at most 4 * 2^30
WMulCol(x, y, k) ==
    LET I == {i \in 1..4 : k + 1 - i >= 1 /\ k + 1 - i <= 4}
    IN  [i \in 1..4 |-> IF i \in I THEN x[i] * y[k + 1 - i] ELSE 0]

RECURSIVE WMulAcc(_, _, _)
\* the sum of the columns k..7 of x * y, column j weighing 2^(15 * (j - 1))
WMulAcc(x, y, k) ==
    IF k > 7 THEN <<0, 0, 0, 0>>
    ELSE LET c == WMulCol(x, y, k)
             a == WAdd(WAdd(<<c[1], 0, 0, 0>>, <<c[2], 0, 0, 0>>),
                       WAdd(<<c[3], 0, 0, 0>>, <<c[4], 0, 0, 0>>))
         IN  WAdd(WShl(a, 15 * (k - 1)), WMulAcc(x, y, k + 1))

WMul(m1, m2) == WMulAcc(Split(m1), Split(m2), 1)

(* ---------------------------------------------------------------------- *)
(* binary64 arithmetic, round to nearest, ties to even.  The exponent      *)
(* range of binary64 is never approached by the values of the player       *)
(* (magnitudes between 2^-120 and 2^12), so it is left unbounded.          *)
(* ---------------------------------------------------------------------- *)
Precision == 53

FZero == [s |-> 0, m |-> <<0, 0>>, e |-> 0]

FIsZero(a) == a.m = <<0, 0>>

Wide(m) == <<m[1], m[2], 0, 0>>

\* FRound for a significand q of 53 or 54 bits
FPack(s, q, e) ==
    The({IF WBitLen(x) > Precision
         THEN [s |-> s, m |-> <<WShr(x, 1)[1], WShr(x, 1)[2]>>, e |-> e + 1]
         ELSE [s |-> s, m |-> <<x[1], x[2]>>, e |-> e] : x \in {q}})

\* FRound for R of more than 53 bits: q = floor(R / 2^k), top = floor(R / 2^(k-1))
FRoundCut(s, R, e, k, q, top) ==
    The({IF t[1] % 2 = 1 /\ (x[1] % 2 = 1 \/ WShl(t, k - 1) # R)
         THEN FPack(s, WAdd(x, <<1, 0, 0, 0>>), e + k)
         ELSE FPack(s, x, e + k) : x \in {q}, t \in {top}})

\* FRound for R # 0 of L bits
FRoundLen(s, R, e, L) ==
    The({IF n <= Precision
         THEN FPack(s, WShl(R, Precision - n), e - (Precision - n))
         ELSE FRoundCut(s, R, e, n - Precision,
                        WShr(R, n - Precision), WShr(R, n - Precision - 1)) :
         n \in {L}})

\* the float nearest to (-1)^s * R * 2^e
FRound(s, R, e) ==
    The({IF WIsZero(x) THEN FZero ELSE FRoundLen(s, x, e, WBitLen(x)) : x \in {R}})

\* -1, 0, 1 as |x| < |y|, |x| = |y|, |x| > |y|, for x, y # 0
FMagCmp(a, b) ==
    IF a.e < b.e THEN -1
    ELSE IF a.e > b.e THEN 1
    ELSE IF a.m[2] < b.m[2] THEN -1
    ELSE IF a.m[2] > b.m[2] THEN 1
    ELSE IF a.m[1] < b.m[1] THEN -1
    ELSE IF a.m[1] > b.m[1] THEN 1
    ELSE 0

\* x + y for |x| >= |y| > 0 and d = x.e - y.e
\* An operand below a quarter of the other's last place is absorbed.
FAddOrdered(big, sml, d) ==
    IF d > Precision + 2 THEN big
    ELSE IF big.s = sml.s
    THEN FRound(big.s, WAdd(WShl(Wide(big.m), d), Wide(sml.m)), sml.e)
    ELSE IF d = 0 /\ big.m = sml.m THEN FZero
    ELSE FRound(big.s, WSub(WShl(Wide(big.m), d), Wide(sml.m)), sml.e)

\* x + y
FAdd(a, b) ==
    The({IF FIsZero(x) THEN y
         ELSE IF FIsZero(y) THEN x
         ELSE IF FMagCmp(x, y) >= 0 THEN FAddOrdered(x, y, x.e - y.e)
         ELSE FAddOrdered(y, x, y.e - x.e) : x \in {a}, y \in {b}})

\* -1 * x
FNeg(a) == IF FIsZero(a) THEN FZero ELSE [a EXCEPT !.s = 1 - a.s]

\* x * y
FMul(a, b) ==
    The({IF FIsZero(x) \/ FIsZero(y) THEN FZero
         ELSE FRound((x.s + y.s) % 2, WMul(x.m, y.m), x.e + y.e) :
         x \in {a}, y \in {b}})

\* float(n) for a Python int n, |n| < 2^30
FFromInt(n) ==
    IF n < 0 THEN FRound(1, <<0 - n, 0, 0, 0>>, 0) ELSE FRound(0, <<n, 0, 0, 0>>, 0)

\* -1, 0, 1 as x < y, x = y, x > y
FCmp(a, b) ==
    The({IF FIsZero(x) THEN (IF FIsZero(y) THEN 0 ELSE IF y.s = 1 THEN 1 ELSE -1)
         ELSE IF FIsZero(y) THEN (IF x.s = 1 THEN -1 ELSE 1)
         ELSE IF x.s # y.s THEN (IF x.s = 1 THEN -1 ELSE 1)
         ELSE IF x.s = 1 THEN 0 - FMagCmp(x, y) ELSE FMagCmp(x, y) :
         x \in {a}, y \in {b}})

FGt(a, b) == FCmp(a, b) = 1

FLe(a, b) == FCmp(a, b) # 1

FGe(a, b) == FCmp(a, b) # -1

\* int(x): truncation toward zero, |x| < 2^30
FTrunc(a) ==
    IF FIsZero(a) THEN 0
    ELSE LET n == IF a.e >= 0 THEN WShl(Wide(a.m), a.e)[1]
                  ELSE WShr(Wide(a.m), 0 - a.e)[1]
         IN  IF a.s = 1 THEN 0 - n ELSE n

\* the literal 0.05 as binary64: 0x1.999999999999ap-5
F005 == [s |-> 0, m |-> <<429496730, 6710886>>, e |-> -57]

\* the literal 0.01 as binary64: 0x1.47ae147ae147bp-7
F001 == [s |-> 0, m |-> <<128849019, 5368709>>, e |-> -59]

\* math.cos(math.radians(d)) for d = 0, 5, ..., 30 degrees
CosTab ==
    <<[s |-> 0, m |-> <<0, 4194304>>, e |-> -52],
      [s |-> 0, m |-> <<873993634, 8356686>>, e |-> -53],
      [s |-> 0, m |-> <<209787927, 8261166>>, e |-> -53],
      [s |-> 0, m |-> <<122208021, 8102773>>, e |-> -53],
      [s |-> 0, m |-> <<38939932, 7882713>>, e |-> -53],
      [s |-> 0, m |-> <<808310631, 7602660>>, e |-> -53],
      [s |-> 0, m |-> <<676875435, 7264747>>, e |-> -53]>>

\* math.sin(math.radians(d)) for d = 0, 5, ..., 30 degrees
SinTab ==
    <<FZero,
      [s |-> 0, m |-> <<952271106, 5848922>>, e |-> -56],
      [s |-> 0, m |-> <<1040937865, 5826665>>, e |-> -55],
      [s |-> 0, m |-> <<26412688, 4342263>>, e |-> -54],
      [s |-> 0, m |-> <<881462261, 5738145>>, e |-> -54],
      [s |-> 0, m |-> <<926390355, 7090357>>, e |-> -54],
      [s |-> 0, m |-> <<1073741823, 8388607>>, e |-> -54]>>

Abs(n) == IF n < 0 THEN 0 - n ELSE n

\* math.cos(math.radians(d)); the C library's cos is even
CosDeg(d) == CosTab[Abs(d) \div 5 + 1]

\* math.sin(math.radians(d)); the C library's sin is odd
SinDeg(d) == IF d < 0 THEN FNeg(SinTab[Abs(d) \div 5 + 1]) ELSE SinTab[d \div 5 + 1]

(* ---------------------------------------------------------------------- *)
(* Configuration (src/configurations.py) and the screen size.              *)
(* ---------------------------------------------------------------------- *)
player_width == 50

player_height == 50

max_power_size == 100

screen_width == 800

screen_height == 600

(* ---------------------------------------------------------------------- *)
(* Bounds of the model.                                                    *)
(* ---------------------------------------------------------------------- *)
\* |direction| <= 5 * MaxDirSteps
MaxDirSteps == 1

\* USEREVENT events one update can find in the queue
MaxRepeat == 1

\* handle_event, stop and draw calls in one behaviour (update is not counted)
MaxCalls == 2

\* charge powers 0, 100, ..., 100 * DecayPowers of the decay inputs
DecayPowers == 4

\* directions of the decay inputs
DecayDirs == {0, 5, 10, 15, 20, 25, 30}

\* applications of update_speed followed past ceil(|v| / 0.05)
DecayExtra == 2

\* constructor arguments (pos_x, pos_y)
InitPos == {<<20, 20>>, <<799, 599>>}

\* game.power_size when the player is constructed
InitPower == {20}

\* (scale_factor, translation_vector) of a draw call
DrawInputs == {<<1, 0, 0>>, <<2, -100, -100>>}

Keys == {"space", "left", "right", "up", "down", "other"}

EventTypes == {"KEYDOWN", "KEYUP"}

Held == {"none", "left", "right"}

VARIABLES
    state,                    \* self.state
    pos_x, pos_y,             \* self.pos_x, self.pos_y
    direction,                \* self.direction
    speed_x, speed_y,         \* self.speed_x, self.speed_y
    biy,                      \* self.biy (x, y), a pygame.Rect holds ints
    image_size,               \* size of self.image
    shooting_start_position,  \* self.shooting_start_position
    power_size,               \* self.game.power_size
    shooting,                 \* self.game.shooting
    timer,                    \* pygame.time.set_timer(USEREVENT, 100) is armed
    last,                     \* the last call: operation, event, return value
    flight,                   \* history: the last Space press and the bounces since
    budget,                   \* handle_event, stop and draw calls so far
    dv0, dv, dn               \* decay experiment: input, value, applications

vars == <<state, pos_x, pos_y, direction, speed_x, speed_y, biy, image_size,
          shooting_start_position, power_size, shooting, timer, last, flight,
          budget, dv0, dv, dn>>

pvars == <<state, pos_x, pos_y, direction, speed_x, speed_y, biy, image_size,
           shooting_start_position, power_size, shooting, timer, last, flight,
           budget>>

(* ---------------------------------------------------------------------- *)
(* Pure parts of the player.                                               *)
(* ---------------------------------------------------------------------- *)
\* Player.center
HalfWidthF == FFromInt(player_width \div 2)

HalfHeightF == FFromInt(player_height \div 2)

center(px, py) == <<FAdd(px, HalfWidthF), FAdd(py, HalfHeightF)>>

LaunchSpeedXUnscaled(p, d) == FMul(FFromInt(p), CosDeg(d))

\* 0.01 * power_size * math.cos(math.radians(direction))
LaunchSpeedX(p, d) == FMul(FMul(F001, FFromInt(p)), CosDeg(d))

\* 0.01 * power_size * math.sin(math.radians(direction))
LaunchSpeedY(p, d) == FMul(FMul(F001, FFromInt(p)), SinDeg(d))

speedDxSwapped(positive) == IF positive THEN F005 ELSE FNeg(F005)

\* Player.update_speed
speedDx(positive) == IF positive THEN FNeg(F005) ELSE F005

SnappedNever(x, speed) == speed

\* the end of update_speed: x and y are the signs before and after the step
Snapped(x, speed) == IF x # FGt(speed, FZero) THEN FZero ELSE speed

update_speed(speed) ==
    The({Snapped(FGt(v, FZero), FAdd(v, speedDx(FGt(v, FZero)))) : v \in {speed}})

\* Game.set_power_size: the session clamps to [0, max_power_size]
set_power_size(p) ==
    IF p < 0 THEN 0 ELSE IF p > max_power_size THEN max_power_size ELSE p

ChargedPowerSwapped(key, p) ==
    IF key = "up" /\ p < max_power_size THEN set_power_size(p - 100)
    ELSE IF key = "down" /\ p > 0 THEN set_power_size(p + 100)
    ELSE p

\* the Up / Down branch of handle_event
ChargedPower(key, p) ==
    IF key = "up" /\ p < max_power_size THEN set_power_size(p + 100)
    ELSE IF key = "down" /\ p > 0 THEN set_power_size(p - 100)
    ELSE p

AimedDirectionSwapped(key, d) ==
    IF key = "right" THEN d - 5
    ELSE IF key = "left" THEN d + 5
    ELSE d

\* the Left / Right branch of handle_event
AimedDirection(key, d) ==
    IF key = "right" THEN d + 5
    ELSE IF key = "left" THEN d - 5
    ELSE d

KeyStateElseIdle(key, st) ==
    IF key = "space" THEN "SHOOTING"
    ELSE IF key \in {"left", "right"} THEN "AIMING"
    ELSE IF key \in {"up", "down"} THEN "POWER"
    ELSE "IDLE"

\* the mode handle_event leaves for a KEYDOWN of key
KeyState(key, st) ==
    IF key = "space" THEN "SHOOTING"
    ELSE IF key \in {"left", "right"} THEN "AIMING"
    ELSE IF key \in {"up", "down"} THEN "POWER"
    ELSE st

KeyReturnAnyKey(type, key) == IF type = "KEYDOWN" THEN 1 ELSE 0

\* the value handle_event returns
KeyReturn(type, key) == IF type = "KEYDOWN" /\ key = "space" THEN 1 ELSE 0

\* one USEREVENT of the long-press loop in update
RepeatedDirection(held, d) ==
    IF held = "left" THEN d - 5
    ELSE IF held = "right" THEN d + 5
    ELSE d

\* the edge tests of update
WidthF == FFromInt(player_width)

HeightF == FFromInt(player_height)

ScreenWidthF == FFromInt(screen_width)

ScreenHeightF == FFromInt(screen_height)

InEdgeX(px) == FLe(px, WidthF) \/ FGe(px, ScreenWidthF)

InEdgeY(py) == FLe(py, HeightF) \/ FGe(py, ScreenHeightF)

BounceDoubled(inEdge, speed) ==
    IF inEdge THEN FAdd(FNeg(speed), FNeg(speed)) ELSE speed

Bounce(inEdge, speed) == IF inEdge THEN FNeg(speed) ELSE speed

SettledStateAnyMode(st, sx, sy) ==
    IF FIsZero(sx) /\ FIsZero(sy) THEN "IDLE" ELSE st

\* the terminal check of update
SettledState(st, sx, sy) ==
    IF st = "SHOOTING" /\ FIsZero(sx) /\ FIsZero(sy) THEN "IDLE" ELSE st

ShootingFlagKept(sh, sx, sy) == sh

ShootingFlagAfterDecay(sh, sx, sy) ==
    IF FIsZero(update_speed(sx)) /\ FIsZero(update_speed(sy)) THEN FALSE ELSE sh

\* the flag update leaves in game.shooting
ShootingFlag(sh, sx, sy) == IF FIsZero(sx) /\ FIsZero(sy) THEN FALSE ELSE sh

StoppedSpeedKept(speed) == speed

\* the velocity stop leaves
StoppedSpeed(speed) == FZero

DrawnPosKept(p, scale, t) == p

\* the position draw stores
DrawnPos(p, scale, t) == FAdd(FMul(p, scale), t)

Rect(px, py) == [x |-> FTrunc(px), y |-> FTrunc(py)]

Min(a, b) == IF a < b THEN a ELSE b

(* ---------------------------------------------------------------------- *)
(* The player.                                                             *)
(* ---------------------------------------------------------------------- *)
NoFlight == [zero |-> TRUE, xflips |-> 0, yflips |-> 0]

\* history of draw: the transform t of the last call when no other call came
\* since, the number n of consecutive calls with it, and the position before
\* the first of them
NoDraws == [t |-> <<1, 0, 0>>, n |-> 0, from |-> <<FZero, FZero>>]

PlayerInit ==
    /\ \E p \in InitPos :
         /\ pos_x = FFromInt(p[1])
         /\ pos_y = FFromInt(p[2])
         /\ biy = Rect(FFromInt(p[1]), FFromInt(p[2]))
         /\ shooting_start_position = center(FFromInt(p[1]), FFromInt(p[2]))
    /\ state = "IDLE"
    /\ direction = 0
    /\ speed_x = FZero
    /\ speed_y = FZero
    /\ image_size = <<player_width, player_height>>
    /\ power_size \in InitPower
    /\ shooting = FALSE
    /\ timer = FALSE
    /\ last = [op |-> "init", ev |-> "none", ret |-> 0, draws |-> NoDraws]
    /\ flight = NoFlight
    /\ budget = 0

Init == PlayerInit /\ dv0 = FZero /\ dv = FZero /\ dn = 0

\* Player.handle_event
handle_event(type, key) ==
    LET down == type = "KEYDOWN"
        d1   == IF down THEN AimedDirection(key, direction) ELSE direction
        go   == down /\ key = "space"
    IN  /\ Abs(d1) <= 5 * MaxDirSteps
        /\ budget < MaxCalls
        /\ state' = IF down THEN KeyState(key, state) ELSE state
        /\ direction' = d1
        /\ power_size' = IF down THEN ChargedPower(key, power_size) ELSE power_size
        /\ timer' = (timer \/ (down /\ key \in {"left", "right"}))
        /\ speed_x' = IF go THEN LaunchSpeedX(power_size, direction) ELSE speed_x
        /\ speed_y' = IF go THEN LaunchSpeedY(power_size, direction) ELSE speed_y
        /\ shooting_start_position' =
               IF go THEN center(pos_x, pos_y) ELSE shooting_start_position
        /\ last' = [op |-> "handle_event",
                    ev |-> IF down THEN key ELSE "notkey",
                    ret |-> KeyReturn(type, key),
                    draws |-> NoDraws]
        /\ flight' = IF go
                     THEN [zero |-> FIsZero(speed_x') /\ FIsZero(speed_y'),
                           xflips |-> 0, yflips |-> 0]
                     ELSE flight
        /\ budget' = budget + 1
        /\ UNCHANGED <<pos_x, pos_y, biy, image_size, shooting, dv0, dv, dn>>

\* the session marks the projectile in flight once handle_event returned 1
GameShoot ==
    /\ last.op = "handle_event"
    /\ last.ret = 1
    /\ ~shooting
    /\ shooting' = TRUE
    /\ UNCHANGED <<state, pos_x, pos_y, direction, speed_x, speed_y, biy,
                   image_size, shooting_start_position, power_size, timer,
                   last, flight, budget, dv0, dv, dn>>

RECURSIVE Repeated(_, _, _)
Repeated(n, held, d) ==
    IF n = 0 THEN d ELSE Repeated(n - 1, held, RepeatedDirection(held, d))

\* Player.update, finding n USEREVENT events queued and the keys in held pressed
update(n, held) ==
    /\ n > 0 => timer
    /\ n = 0 => held = "none"
    /\ Abs(Repeated(n, held, direction)) <= 5 * MaxDirSteps
    /\ direction' = Repeated(n, held, direction)
    /\ pos_x' = FAdd(pos_x, speed_x)
    /\ pos_y' = FAdd(pos_y, speed_y)
    /\ biy' = Rect(pos_x', pos_y')
    /\ shooting' = ShootingFlag(shooting, speed_x, speed_y)
    /\ speed_x' = update_speed(Bounce(InEdgeX(pos_x'), speed_x))
    /\ speed_y' = update_speed(Bounce(InEdgeY(pos_y'), speed_y))
    /\ state' = SettledState(state, speed_x', speed_y')
    /\ last' = [op |-> "update", ev |-> held, ret |-> n, draws |-> NoDraws]
    /\ flight' = [flight EXCEPT
                    !.xflips = IF InEdgeX(pos_x') /\ ~FIsZero(speed_x)
                               THEN Min(@ + 1, 2) ELSE 0,
                    !.yflips = IF InEdgeY(pos_y') /\ ~FIsZero(speed_y)
                               THEN Min(@ + 1, 2) ELSE 0]
    /\ UNCHANGED <<image_size, shooting_start_position, power_size, timer,
                   budget, dv0, dv, dn>>

\* Player.stop
stop ==
    /\ budget < MaxCalls
    /\ budget' = budget + 1
    /\ speed_x' = StoppedSpeed(speed_x)
    /\ speed_y' = StoppedSpeed(speed_y)
    /\ last' = [op |-> "stop", ev |-> "none", ret |-> 0, draws |-> NoDraws]
    /\ flight' = [flight EXCEPT !.xflips = 0, !.yflips = 0]
    /\ UNCHANGED <<state, pos_x, pos_y, direction, biy, image_size,
                   shooting_start_position, power_size, shooting, timer,
                   dv0, dv, dn>>

\* Player.draw
draw(scale, tx, ty) ==
    LET ident == scale = 1 /\ tx = 0 /\ ty = 0
    IN  /\ budget < MaxCalls
        /\ pos_x' = DrawnPos(pos_x, FFromInt(scale), FFromInt(tx))
        /\ pos_y' = DrawnPos(pos_y, FFromInt(scale), FFromInt(ty))
        /\ image_size' = <<player_width * scale, player_height * scale>>
        /\ last' = [op |-> "draw", ev |-> "none", ret |-> 0,
                    draws |-> IF last.draws.n > 0 /\ last.draws.t = <<scale, tx, ty>>
                              THEN [last.draws EXCEPT !.n = @ + 1]
                              ELSE [t |-> <<scale, tx, ty>>, n |-> 1,
                                    from |-> <<pos_x, pos_y>>]]
        /\ flight' = IF ident THEN flight
                     ELSE [flight EXCEPT !.xflips = 0, !.yflips = 0]
        /\ budget' = budget + 1
        /\ UNCHANGED <<state, direction, speed_x, speed_y, biy,
                       shooting_start_position, power_size, shooting, timer,
                       dv0, dv, dn>>

Next ==
    \/ \E type \in EventTypes, key \in Keys : handle_event(type, key)
    \/ GameShoot
    \/ \E n \in 0..MaxRepeat, held \in Held : update(n, held)
    \/ stop
    \/ \E t \in DrawInputs : draw(t[1], t[2], t[3])

Spec == Init /\ [][Next]_vars

(* ---------------------------------------------------------------------- *)
(* update_speed on its own: one velocity component decayed repeatedly.     *)
(* ---------------------------------------------------------------------- *)
\* 20 * M for a significand m
Times20(m) == WAdd(WShl(Wide(m), 4), WShl(Wide(m), 2))

\* ceil(X / 2^k)
CeilShr(X, k) == WShr(X, k)[1] + (IF WShl(WShr(X, k), k) = X THEN 0 ELSE 1)

\* ceil(|v| / 0.05) over the reals, for |v| < 2^20
CeilSteps(v) ==
    IF FIsZero(v) THEN 0
    ELSE IF v.e >= 0 THEN WShl(Times20(v.m), v.e)[1]
    ELSE CeilShr(Times20(v.m), 0 - v.e)

\* the velocity components a Space press can assign, and their negations
DecayInputs ==
    UNION {{LaunchSpeedX(100 * p, d), LaunchSpeedY(100 * p, d),
            FNeg(LaunchSpeedX(100 * p, d)), FNeg(LaunchSpeedY(100 * p, d))} :
           p \in 0..DecayPowers, d \in DecayDirs}

InitDecay == PlayerInit /\ dv0 \in DecayInputs /\ dv = dv0 /\ dn = 0

Decay ==
    /\ dn < CeilSteps(dv0) + DecayExtra
    /\ dv' = update_speed(dv)
    /\ dn' = dn + 1
    /\ UNCHANGED <<dv0, pvars>>

NextDecay == Decay

SpecDecay == InitDecay /\ [][NextDecay]_vars

(* ---------------------------------------------------------------------- *)
(* A flight left alone: keys are pressed until Space, then update is       *)
(* called every frame and no further event arrives.                        *)
(* ---------------------------------------------------------------------- *)
Flying == (last.op = "handle_event" /\ last.ev = "space") \/ last.op = "update"

Tick == Flying /\ update(0, "none")

NextLive ==
    \/ \E type \in EventTypes, key \in Keys : ~Flying /\ handle_event(type, key)
    \/ GameShoot
    \/ Tick

SpecLive == Init /\ [][NextLive]_vars /\ WF_vars(Tick)

(* ---------------------------------------------------------------------- *)
(* Properties.                                                             *)
(* ---------------------------------------------------------------------- *)
\* C1 as stated: a velocity component v is exactly 0 after ceil(|v| / 0.05)
\* applications of update_speed and on every later one (3.0: after 60).
C1_ZeroWithinCeil == dn >= CeilSteps(dv0) => FIsZero(dv)

\* C1: a velocity component v a Space press can assign is exactly 0 after
\* ceil(|v| / 0.05) + 1 applications of update_speed and on every later one;
\* a component starting at 3.0 is exactly 0 after 61 applications.
C1_ZeroWithinCeilPlusOne ==
    /\ dn >= CeilSteps(dv0) + 1 => FIsZero(dv)
    /\ (dv0 = FFromInt(3) /\ dn = 60) => ~FIsZero(dv)

C1_Witness == dv0 = FFromInt(3) /\ dn = 61 /\ FIsZero(dv)


Zero(sx, sy) == FIsZero(sx) /\ FIsZero(sy)

KeyPress(l, key) == l.op = "handle_event" /\ l.ev = key

\* C2: a step changes mode to Idle if and only if it is an update step that
\* began in mode Launched and ended with both velocity components exactly 0.
C2_IdleIffSettledUpdate ==
    [][(state' = "IDLE" /\ state # "IDLE")
       <=> (last'.op = "update" /\ state = "SHOOTING" /\ Zero(speed_x', speed_y'))]_vars

C2_Witness ==
    state = "IDLE" /\ last.op = "update" /\ ~flight.zero /\ Zero(speed_x, speed_y)

\* C3 as stated: once Launched, the mode stays Launched in every following
\* state until the velocity has reached (0,0), whatever keys are pressed.
C3_LaunchedUntilZero ==
    [][(state = "SHOOTING" /\ ~Zero(speed_x, speed_y) /\ ~Zero(speed_x', speed_y'))
       => state' = "SHOOTING"]_vars

\* C4 as stated: over the consecutive ticks the player spends in an edge zone
\* the sign of that velocity component flips once, not once per tick.
C4_OneFlipPerCrossing == flight.xflips <= 1 /\ flight.yflips <= 1

\* C5 as stated: in every state whose mode is Launched the velocity assigned
\* by the Space press that started the flight was nonzero, and while a flight
\* of nonzero launch velocity is moving the mode is Launched.
C5_LaunchedIffNonzeroLaunch ==
    /\ state = "SHOOTING" => ~flight.zero
    /\ (~flight.zero /\ ~Zero(speed_x, speed_y)) => state = "SHOOTING"

\* C6 as stated: chargePower stays in [0, maxPower] and every press changes it
\* by exactly +100, -100 or not at all.
C6_StepsOfHundred ==
    [][/\ power_size' \in 0..max_power_size
       /\ power_size' - power_size \in {100, 0 - 100, 0}]_vars

Clamped(p) == IF p < 0 THEN 0 ELSE IF p > max_power_size THEN max_power_size ELSE p

\* C6: chargePower stays in [0, maxPower]; an Up press below maxPower moves it
\* to min(power + 100, maxPower), a Down press above 0 moves it to
\* max(power - 100, 0), and nothing else changes it (Up at maxPower and Down
\* at 0 change nothing).
C6_ClampedSteps ==
    [][/\ power_size' \in 0..max_power_size
       /\ power_size' =
            IF KeyPress(last', "up") /\ power_size < max_power_size
            THEN Clamped(power_size + 100)
            ELSE IF KeyPress(last', "down") /\ power_size > 0
            THEN Clamped(power_size - 100)
            ELSE power_size]_vars

C6_Witness ==
    /\ KeyPress(last, "up")
    /\ budget = 1
    /\ power_size = max_power_size
    /\ \A p \in InitPower : max_power_size - p \notin {100, 0}

\* C7: a Space key press in any mode sets mode to Launched, records launchOrigin
\* as the player's center, sets velocity to 0.01 * chargePower * (cos, sin) of
\* the direction and returns 1 (direction 0 and chargePower 300 give (3.0, 0.0));
\* position and direction are not changed.
C7_SpaceLaunches ==
    [][KeyPress(last', "space") =>
         /\ state' = "SHOOTING"
         /\ last'.ret = 1
         /\ shooting_start_position' =
              <<FAdd(pos_x, FFromInt(player_width \div 2)),
                FAdd(pos_y, FFromInt(player_height \div 2))>>
         /\ speed_x' = FMul(FMul(F001, FFromInt(power_size)), CosDeg(direction))
         /\ speed_y' = FMul(FMul(F001, FFromInt(power_size)), SinDeg(direction))
         /\ LaunchSpeedX(300, 0) = FFromInt(3)
         /\ LaunchSpeedY(300, 0) = FZero
         /\ pos_x' = pos_x /\ pos_y' = pos_y /\ direction' = direction]_vars

C7_Witness ==
    /\ KeyPress(last, "space")
    /\ budget = 2
    /\ state = "SHOOTING"
    /\ direction # 0
    /\ ~FIsZero(speed_y)

HeldStep(held) == IF held = "left" THEN 0 - 5 ELSE IF held = "right" THEN 5 ELSE 0

\* C8: a Left press changes direction by -5 and a Right press by +5; update
\* changes it by -5, +5 or 0 per repeat event as Left, Right or neither is
\* held; nothing else changes it, so it stays a multiple of 5 (three Left
\* presses from 0 give -15).
C8_DirectionSteps ==
    [][/\ direction' - direction =
            IF KeyPress(last', "left") THEN 0 - 5
            ELSE IF KeyPress(last', "right") THEN 5
            ELSE IF last'.op = "update" THEN last'.ret * HeldStep(last'.ev)
            ELSE 0
       /\ direction' % 5 = 0
       /\ AimedDirection("left", AimedDirection("left", AimedDirection("left", 0)))
            = 0 - 15]_vars

C8_Witness ==
    last.op = "update" /\ last.ret > 0 /\ last.ev = "left" /\ direction = 0 - 5

\* C9: handle_event with an event that is not a key press, or with a key other
\* than Space, Left, Right, Up, Down, returns 0 and leaves mode, direction,
\* velocity, position, launchOrigin and chargePower unchanged.
C9_OtherEventsNoOp ==
    [][(KeyPress(last', "other") \/ KeyPress(last', "notkey")) =>
         /\ last'.ret = 0
         /\ UNCHANGED <<state, direction, speed_x, speed_y, pos_x, pos_y,
                        shooting_start_position, power_size>>]_vars

C9_Witness == KeyPress(last, "other") /\ state = "SHOOTING" /\ ~Zero(speed_x, speed_y)

\* C10: stop sets velocity to (0,0) in that step and leaves mode, position,
\* direction, launchOrigin and chargePower unchanged; a player stopped while
\* Launched is still Launched and becomes Idle at the next update.
C10_StopZeroesVelocity ==
    [][/\ last'.op = "stop" =>
            /\ Zero(speed_x', speed_y')
            /\ UNCHANGED <<state, pos_x, pos_y, direction,
                           shooting_start_position, power_size>>
       /\ (last.op = "stop" /\ state = "SHOOTING" /\ last'.op = "update")
            => state' = "IDLE"]_vars

C10_Witness ==
    /\ last.op = "stop"
    /\ state = "SHOOTING"
    /\ ~flight.zero
    /\ Zero(speed_x, speed_y)
    /\ pos_x \notin {FFromInt(p[1]) : p \in InitPos}

\* C11 as stated: the bounding box position equals the player's position in
\* every state: after every update, and after handle_event, stop and draw.
C11_BoxEqualsPosition == FFromInt(biy.x) = pos_x /\ FFromInt(biy.y) = pos_y

FAbs(a) == [a EXCEPT !.s = 0]

\* |a| < |b|
MagLess(a, b) == FGt(FAbs(b), FAbs(a))

\* C12: for every nonzero velocity component s, update_speed(s) has strictly
\* smaller magnitude than s and is either 0 or of the same sign as s, and
\* update_speed(0) = 0.
C12_DecayShrinks ==
    [][/\ ~FIsZero(dv) =>
            /\ dv' = update_speed(dv)
            /\ MagLess(dv', dv)
            /\ (FIsZero(dv') \/ dv'.s = dv.s)
       /\ FIsZero(dv) => FIsZero(dv')
       /\ FIsZero(update_speed(FZero))]_vars

C12_Witness ==
    /\ dv0.s = 1
    /\ dn = 3
    /\ ~FIsZero(dv)
    /\ dv.s = 1
    /\ MagLess(dv, dv0)

Settled == Zero(speed_x, speed_y) /\ state = "IDLE" /\ ~shooting

\* C13: after a Space press, with update then called repeatedly and no further
\* input, the player eventually has velocity (0,0), mode Idle and game.shooting
\* False and stays so, on flights that bounce off an edge as on the others.
C13_EventuallySettled == KeyPress(last, "space") ~> ([]Settled)

C13_Witness ==
    /\ Settled
    /\ last.op = "update"
    /\ ~flight.zero
    /\ FGt(FFromInt(799), pos_x)
    /\ FGt(pos_x, FFromInt(700))

\* C14: mode changes only in handle_event and in the terminal check of update
\* (Launched to Idle at velocity (0,0)); a press of Space, Left/Right, Up/Down
\* sets mode Launched, Aiming, ChargingPower from any mode, Launched included,
\* and also when an Up/Down press leaves chargePower unchanged at its limit;
\* handle_event returns 1 only for Space; stop and draw never change mode.
C14_ModeChanges ==
    [][/\ state' # state =>
            \/ last'.op = "handle_event"
            \/ /\ last'.op = "update"
               /\ state = "SHOOTING"
               /\ state' = "IDLE"
               /\ Zero(speed_x', speed_y')
       /\ KeyPress(last', "space") => state' = "SHOOTING"
       /\ (KeyPress(last', "left") \/ KeyPress(last', "right")) => state' = "AIMING"
       /\ (KeyPress(last', "up") \/ KeyPress(last', "down")) => state' = "POWER"
       /\ last'.op = "handle_event" => (last'.ret = 1 <=> last'.ev = "space")
       /\ last'.op \in {"stop", "draw"} => state' = state]_vars

C14_Witness ==
    /\ KeyPress(last, "up")
    /\ state = "POWER"
    /\ ~flight.zero
    /\ ~Zero(speed_x, speed_y)
    /\ power_size = max_power_size

\* C15: update sets game.shooting to False exactly when the velocity is (0,0)
\* right after position integration, before the bounce and decay of that
\* tick: the tick whose decay brings the velocity to (0,0) and the mode to
\* Idle leaves the flag as it was, and the following tick clears it; at the
\* end of an update that cleared the flag the velocity is (0,0) and the mode
\* is not Launched.
C15_FlagClearedNextTick ==
    [][last'.op = "update" =>
         /\ Zero(speed_x, speed_y) =>
              /\ ~shooting'
              /\ Zero(speed_x', speed_y')
              /\ state' # "SHOOTING"
         /\ ~Zero(speed_x, speed_y) => shooting' = shooting
         /\ (~Zero(speed_x, speed_y) /\ Zero(speed_x', speed_y') /\ shooting) =>
              /\ shooting'
              /\ state = "SHOOTING" => state' = "IDLE"]_vars

C15_Witness ==
    /\ last.op = "update"
    /\ shooting
    /\ ~flight.zero
    /\ Zero(speed_x, speed_y)
    /\ state = "IDLE"

RECURSIVE Compounded(_, _, _, _)
\* p * s + t taken n times
Compounded(p, s, t, n) ==
    IF n = 0 THEN p ELSE FAdd(FMul(Compounded(p, s, t, n - 1), s), t)

TransformSamples ==
    {<<1, 0, 0>>, <<1, 5, 0>>, <<1, 0, 0 - 5>>, <<2, 0, 0>>, <<2, 0 - 100, 0 - 100>>}

PositionSamples == {<<0, 0>>, <<20, 20>>, <<100, 100>>, <<799, 599>>}

\* the transform tr leaves the position p where it is
Fixes(tr, p) ==
    /\ FAdd(FMul(FFromInt(p[1]), FFromInt(tr[1])), FFromInt(tr[2])) = FFromInt(p[1])
    /\ FAdd(FMul(FFromInt(p[2]), FFromInt(tr[1])), FFromInt(tr[3])) = FFromInt(p[2])

OnlyIdentityFixes ==
    \A tr \in TransformSamples :
        (\A p \in PositionSamples : Fixes(tr, p)) <=> tr = <<1, 0, 0>>

\* C16: draw leaves mode, direction, velocity and chargePower unchanged and
\* overwrites the stored position with position * scaleFactor + translation,
\* so n calls with the same transform compound n times (two calls give
\* (p*s + t)*s + t); only scaleFactor 1 with translation (0,0) leaves every
\* position unchanged.
C16_DrawCompounds ==
    [][/\ last'.op = "draw" =>
            /\ UNCHANGED <<state, direction, speed_x, speed_y, power_size>>
            /\ pos_x' = FAdd(FMul(pos_x, FFromInt(last'.draws.t[1])),
                             FFromInt(last'.draws.t[2]))
            /\ pos_y' = FAdd(FMul(pos_y, FFromInt(last'.draws.t[1])),
                             FFromInt(last'.draws.t[3]))
            /\ pos_x' = Compounded(last'.draws.from[1], FFromInt(last'.draws.t[1]),
                                   FFromInt(last'.draws.t[2]), last'.draws.n)
            /\ pos_y' = Compounded(last'.draws.from[2], FFromInt(last'.draws.t[1]),
                                   FFromInt(last'.draws.t[3]), last'.draws.n)
            /\ last'.draws.t = <<1, 0, 0>> => (pos_x' = pos_x /\ pos_y' = pos_y)
       /\ OnlyIdentityFixes]_vars

C16_Witness ==
    /\ last.op = "draw"
    /\ last.draws.n = 2
    /\ last.draws.t = <<2, 0 - 100, 0 - 100>>
    /\ last.draws.from = <<FFromInt(20), FFromInt(20)>>
    /\ pos_x = FFromInt(0 - 220)
    /\ pos_y = FFromInt(0 - 220)

\* C17: no update step increases the magnitude of either velocity component,
\* and update moves the position by the velocity held at the start of the
\* tick; velocity becomes nonzero only through a Space press, and a player
\* with velocity (0,0) keeps its position and its zero velocity under update.
C17_UpdateNeverSpeedsUp ==
    [][/\ last'.op = "update" =>
            /\ ~MagLess(speed_x, speed_x')
            /\ ~MagLess(speed_y, speed_y')
            /\ pos_x' = FAdd(pos_x, speed_x)
            /\ pos_y' = FAdd(pos_y, speed_y)
            /\ Zero(speed_x, speed_y) =>
                 /\ pos_x' = pos_x /\ pos_y' = pos_y
                 /\ Zero(speed_x', speed_y')
       /\ ((FIsZero(speed_x) /\ ~FIsZero(speed_x'))
             \/ (FIsZero(speed_y) /\ ~FIsZero(speed_y')))
            => KeyPress(last', "space")]_vars

C17_Witness ==
    /\ last.op = "update"
    /\ flight.xflips = 1
    /\ ~FIsZero(speed_x)
    /\ speed_x.s = 1
    /\ FGe(pos_x, FFromInt(screen_width))

====
